---- MODULE Spec2Model ----
(***************************************************************************)
(* Stepping-loop drivers of mirgecom's examples:                           *)
(*   generic-parallel-driver.py  the generic driver loop ("generic")       *)
(*   scalar-lump-mpi.py          the distributed lump driver ("lump")      *)
(*   pulse.py                    the serial pulse driver ("pulse")         *)
(* One behaviour is one run of one driver; prog says which.                *)
(*                                                                         *)
(* Simulation time is a Python float.  It is modelled as a binary          *)
(* floating-point number with MantBits significant bits, written as an     *)
(* integer count of the smallest quantum; every addition rounds to the     *)
(* nearest representable value, ties to even, as IEEE 754 does.            *)
(***************************************************************************)
EXTENDS Integers, Sequences, FiniteSets, TLC

VARIABLES prog, cfg, pc, step, t, dt, state, due, herr, sent, log

vars == <<prog, cfg, pc, step, t, dt, state, due, herr, sent, log>>

----------------------------------------------------------------------------
(* Bounds of the model *)

MantBits == 3          \* significant bits of the modelled float
MaxStepMax == 3        \* largest step limit of the generic driver
NParts == 2            \* number of distributed workers (comm.Get_size())
MaxInterval == 2       \* largest configured interval
MaxRst == 2            \* largest resume step

Workers == 1 .. NParts

NoRst == 0 - 1         \* rst_step=None

----------------------------------------------------------------------------
(* Float arithmetic *)

Abs(x) == IF x < 0 THEN 0 - x ELSE x

RECURSIVE Pow2(_)
Pow2(n) == IF n <= 0 THEN 1 ELSE 2 * Pow2(n - 1)

RECURSIVE BitLen(_)
BitLen(x) == IF x <= 0 THEN 0 ELSE 1 + BitLen(x \div 2)

\* round a non-negative magnitude to MantBits significant bits, ties to even
RoundMag(x) ==
    LET e == BitLen(x) IN
    IF e <= MantBits THEN x
    ELSE LET u   == Pow2(e - MantBits)
             lo  == (x \div u) * u
             rem == x - lo
         IN  IF 2 * rem < u THEN lo
             ELSE IF 2 * rem > u THEN lo + u
             ELSE IF (lo \div u) % 2 = 0 THEN lo ELSE lo + u

\* rounding toward zero instead
RoundMagTrunc(x) ==
    LET e == BitLen(x) IN
    IF e <= MantBits THEN x
    ELSE LET u == Pow2(e - MantBits) IN (x \div u) * u

Round(x) == IF x < 0 THEN 0 - RoundMag(0 - x) ELSE RoundMag(x)

\* float addition and subtraction
FAdd(a, b) == Round(a + b)

FSub(a, b) == Round(a - b)

Representable(x) == Round(x) = x

----------------------------------------------------------------------------
(* Event log: what each worker has called or written, in order *)

Ev(op, s, tm, d, st, src) ==
    [op |-> op, step |-> s, t |-> tm, dt |-> d, st |-> st, src |-> src]

Has(w, op) == \E i \in 1 .. Len(log[w]) : log[w][i].op = op

Count(w, op) == Cardinality({i \in 1 .. Len(log[w]) : log[w][i].op = op})

CountAt(w, op, s) ==
    Cardinality({i \in 1 .. Len(log[w]) : log[w][i].op = op /\ log[w][i].step = s})

NoDue == [viz |-> FALSE, restart |-> FALSE, health |-> FALSE, status |-> FALSE]

----------------------------------------------------------------------------
(* generic-parallel-driver.py *)

GenT0 == {0, 6, 8}
GenTFinal == {0, 8, 10, 20}
GenDt == {0 - 1, 0, 1, 5}
GenStep0 == {0, 1}

GenInit ==
    /\ prog = "generic"
    /\ \E t0 \in GenT0, tf \in GenTFinal, s0 \in GenStep0, sm \in 0 .. MaxStepMax,
          pa \in BOOLEAN :
         /\ Representable(t0) /\ Representable(tf)
         /\ cfg = [t_final |-> tf, step_max |-> sm, t0 |-> t0, step0 |-> s0,
                   post_alters |-> pa]
         /\ step = [w \in Workers |-> IF w = 1 THEN s0 ELSE 0]
         /\ t = [w \in Workers |-> IF w = 1 THEN t0 ELSE 0]
    /\ pc = [w \in Workers |-> IF w = 1 THEN "start" ELSE "off"]
    /\ dt = [w \in Workers |-> 0]
    /\ state = [w \in Workers |-> 0]
    /\ due = [w \in Workers |-> NoDue]
    /\ herr = [w \in Workers |-> FALSE]
    /\ sent = [w \in Workers |-> <<>>]
    /\ log = [w \in Workers |-> <<>>]

GenLimitsMetTimeOnly(cur_t, cur_step, t_final, step_max) ==
    cur_t >= t_final

\* the loop limits are already met
GenLimitsMet(cur_t, cur_step, t_final, step_max) ==
    (cur_t >= t_final) \/ (cur_step >= step_max)

GenContinueLe(cur_t, cur_step, t_final, step_max) ==
    (cur_t <= t_final) /\ (cur_step < step_max)

GenContinueOr(cur_t, cur_step, t_final, step_max) ==
    (cur_t < t_final) \/ (cur_step < step_max)

\* the while condition of the loop
GenContinue(cur_t, cur_step, t_final, step_max) ==
    (cur_t < t_final) /\ (cur_step < step_max)

\* if limits met: raise ValueError("Nothing to do, loop limits already met.")
GenCheck ==
    /\ prog = "generic" /\ pc[1] = "start"
    /\ IF GenLimitsMet(t[1], step[1], cfg.t_final, cfg.step_max)
       THEN /\ pc' = [pc EXCEPT ![1] = "raised"]
            /\ log' = [log EXCEPT ![1] =
                         Append(@, Ev("raise", step[1], t[1], 0, state[1], "nothing"))]
       ELSE /\ pc' = [pc EXCEPT ![1] = "loop"]
            /\ log' = log
    /\ UNCHANGED <<prog, cfg, step, t, dt, state, due, herr, sent>>

\* loop test, then prestep_function(step, time, state) returning (state, dt)
GenPreStep ==
    /\ prog = "generic" /\ pc[1] = "loop"
    /\ GenContinue(t[1], step[1], cfg.t_final, cfg.step_max)
    /\ \E d \in GenDt, alter \in BOOLEAN :
         /\ dt' = [dt EXCEPT ![1] = d]
         /\ state' = [state EXCEPT ![1] = IF alter THEN @ + 100 ELSE @]
         /\ log' = [log EXCEPT ![1] =
                      @ \o <<Ev("pre", step[1], t[1], d, state[1], "loop"),
                              Ev("pre_ret", step[1], t[1], d,
                                 IF alter THEN state[1] + 100 ELSE state[1], "loop")>>]
    /\ pc' = [pc EXCEPT ![1] = "step"]
    /\ UNCHANGED <<prog, cfg, step, t, due, herr, sent>>

\* the pre-step callback signals an abort by raising
GenPreStepAbort ==
    /\ prog = "generic" /\ pc[1] = "loop"
    /\ GenContinue(t[1], step[1], cfg.t_final, cfg.step_max)
    /\ log' = [log EXCEPT ![1] =
                 Append(Append(@, Ev("pre", step[1], t[1], 0, state[1], "loop")),
                        Ev("raise", step[1], t[1], 0, state[1], "callback"))]
    /\ pc' = [pc EXCEPT ![1] = "aborted"]
    /\ UNCHANGED <<prog, cfg, step, t, dt, state, due, herr, sent>>

GenAdvanceTimeTrunc(cur_t, d) ==
    LET x == cur_t + d IN
    IF x < 0 THEN 0 - RoundMagTrunc(0 - x) ELSE RoundMagTrunc(x)

\* current_t += dt
GenAdvanceTime(cur_t, d) == FAdd(cur_t, d)

\* what a post-step callback hands back: nothing of its own, or a state
\* and a step size of its own
PostStepReturn(alters, st, d) ==
    IF alters THEN [state |-> st + 50, dt |-> d + 2] ELSE [state |-> st, dt |-> d]

GenLoopBodyPostEarly(s, tm, d, st, nt, ns, ret) ==
    <<Ev("timestepper", s, tm, d, st, "loop"),
      Ev("post", s, tm, d, ns, "loop"),
      Ev("post_ret", s, tm, ret.dt, ret.state, "loop")>>

\* the calls of one iteration after the pre-step: the timestepper with the
\* state and dt of the pre-step and the time before the advance, then the
\* post-step with the advanced step and time and the new state; what the
\* post-step returns is not assigned to anything
GenLoopBody(s, tm, d, st, nt, ns, ret) ==
    <<Ev("timestepper", s, tm, d, st, "loop"),
      Ev("post", s + 1, nt, d, ns, "loop"),
      Ev("post_ret", s + 1, nt, ret.dt, ret.state, "loop")>>

\* timestepper_function, current_t += dt, current_step += 1, poststep_function
GenStepBody ==
    /\ prog = "generic" /\ pc[1] = "step"
    /\ LET ns == state[1] + 1
           nt == GenAdvanceTime(t[1], dt[1])
       IN  /\ state' = [state EXCEPT ![1] = ns]
           /\ t' = [t EXCEPT ![1] = nt]
           /\ step' = [step EXCEPT ![1] = @ + 1]
           /\ log' = [log EXCEPT ![1] =
                        @ \o GenLoopBody(step[1], t[1], dt[1], state[1], nt, ns,
                                         PostStepReturn(cfg.post_alters, ns, dt[1]))]
    /\ pc' = [pc EXCEPT ![1] = "loop"]
    /\ UNCHANGED <<prog, cfg, dt, due, herr, sent>>

\* the loop condition is false: usimu.finalize_simuation(); exit()
GenFinish ==
    /\ prog = "generic" /\ pc[1] = "loop"
    /\ ~GenContinue(t[1], step[1], cfg.t_final, cfg.step_max)
    /\ pc' = [pc EXCEPT ![1] = "done"]
    /\ log' = [log EXCEPT ![1] = Append(@, Ev("finalize", step[1], t[1], 0, state[1], "main"))]
    /\ UNCHANGED <<prog, cfg, step, t, dt, state, due, herr, sent>>


----------------------------------------------------------------------------
(* scalar-lump-mpi.py *)

\* finish_tol = 1e-16, in quanta of the modelled float
finish_tol == 1

Intervals == (0 - 1) .. MaxInterval

\* nstatus only decides a log line: a zero interval and a grid of 2
StatusIntervals == {0, 2}

\* (current_dt, t_final, whether the step-size selector shortens the last
\* step): a run that lands on t_final, one that overshoots within the
\* tolerance, one that overshoots beyond it, one that is shortened
TimeSetups ==
    {[dt |-> 1, t_final |-> 3, clamp |-> FALSE],
     [dt |-> 3, t_final |-> 5, clamp |-> FALSE],
     [dt |-> 3, t_final |-> 4, clamp |-> FALSE],
     [dt |-> 3, t_final |-> 4, clamp |-> TRUE]}

RstSteps == {NoRst} \cup (0 .. MaxRst)

\* restart files the run may be pointed at: one holding the key "nparts"
\* with the right or a wrong worker count, or one as my_write_restart
\* writes it, holding "num_parts"
RstFiles ==
    {[t |-> 1, state |-> 7, key |-> "nparts", nparts |-> NParts],
     [t |-> 6, state |-> 7, key |-> "nparts", nparts |-> NParts],
     [t |-> 1, state |-> 7, key |-> "nparts", nparts |-> NParts + 1],
     [t |-> 1, state |-> 7, key |-> "num_parts", nparts |-> NParts]}

NoFile == [t |-> 0, state |-> 0, key |-> "none", nparts |-> 0]

\* if rst_step: (None and 0 are both false)
Resumed(rst_step) == rst_step # NoRst /\ rst_step # 0

LumpInit ==
    /\ prog = "lump"
    /\ \E ts \in TimeSetups,
          nv \in Intervals, nr \in Intervals, nh \in Intervals, ns \in StatusIntervals,
          rs \in RstSteps, f \in RstFiles \cup {NoFile} :
         /\ Resumed(rs) <=> f # NoFile
         /\ Representable(ts.t_final) /\ Representable(ts.dt) /\ Representable(f.t)
         /\ cfg = [t_final |-> ts.t_final, dt |-> ts.dt, clamp |-> ts.clamp,
                   nviz |-> nv, nrestart |-> nr, nhealth |-> nh, nstatus |-> ns,
                   rst_step |-> rs, rfile |-> f]
         /\ dt = [w \in Workers |-> ts.dt]
    /\ pc = [w \in Workers |-> "start"]
    /\ step = [w \in Workers |-> 0]
    /\ t = [w \in Workers |-> 0]
    /\ state = [w \in Workers |-> 0]
    /\ due = [w \in Workers |-> NoDue]
    /\ herr = [w \in Workers |-> FALSE]
    /\ sent = [w \in Workers |-> <<>>]
    /\ log = [w \in Workers |-> <<>>]

\* mirgecom.simutil.check_step
check_step(s, interval) == interval > 0 /\ s % interval = 0

\* the step index advance_state starts from when the caller passes none
InitialStep == 0

\* the loop condition of advance_state
AdvContinue(cur_t, t_final) == cur_t < t_final

\* the step size of one iteration: the external selector keeps dt or
\* shortens the last step to land on t_final
get_timestep(cur_t, d, t_final, clamp) ==
    IF clamp /\ FAdd(cur_t, d) > t_final THEN FSub(t_final, cur_t) ELSE d

LumpDueViaRestart(s) ==
    [viz     |-> check_step(s, cfg.nrestart),
     restart |-> check_step(s, cfg.nrestart),
     health  |-> check_step(s, cfg.nhealth),
     status  |-> check_step(s, cfg.nstatus)]

\* do_viz, do_restart, do_health, do_status as check_step returns them
LumpDue(s) ==
    [viz     |-> check_step(s, cfg.nviz),
     restart |-> check_step(s, cfg.nrestart),
     health  |-> check_step(s, cfg.nhealth),
     status  |-> check_step(s, cfg.nstatus)]

LumpSuppressNever(s, rst_step) == FALSE

\* if step == rst_step: don't do viz or restart
LumpSuppress(s, rst_step) == s = rst_step

LumpReduceAnd(k) == \A v \in Workers : sent[v][k]

\* comm.allreduce(health_errors, op=MPI.LOR) of the k-th health check
LumpReduce(k) == \E v \in Workers : sent[v][k]

LumpPreStepErrorsNone(he) == FALSE

\* pre_step_errors = pre_step_errors or health_errors
LumpPreStepErrors(he) == he

LumpNotFinishedBelow(cur_t, t_final) == t_final - cur_t > finish_tol

\* np.abs(current_t - t_final) > finish_tol
LumpNotFinished(cur_t, t_final) == Abs(cur_t - t_final) > finish_tol

GracefulExitNoWrite(s, tm, st, do_viz, do_restart, src) ==
    <<Ev("raise", s, tm, 0, st, src)>>

\* my_graceful_exit: the writes asked for, then raise RuntimeError
GracefulExit(s, tm, st, do_viz, do_restart, src) ==
    (IF do_viz THEN <<Ev("viz", s, tm, 0, st, "emergency")>> ELSE <<>>)
    \o (IF do_restart THEN <<Ev("restart", s, tm, 0, st, "emergency")>> ELSE <<>>)
    \o <<Ev("raise", s, tm, 0, st, src)>>

\* main up to the call of advance_state, and advance_state's entry check
\* (a resumed run in which the import at line 183 resolves, or use_logmgr
\* is off)
LumpStart(w) ==
    /\ prog = "lump" /\ pc[w] = "start"
    /\ LET f == cfg.rfile
           res == Resumed(cfg.rst_step)
           t0 == IF res THEN f.t ELSE 0
           s0 == IF res THEN f.state ELSE 0
       IN  IF res /\ f.key # "nparts"
           THEN \* restart_data["nparts"]: KeyError
                /\ pc' = [pc EXCEPT ![w] = "raised"]
                /\ log' = [log EXCEPT ![w] = Append(@, Ev("raise", 0, 0, 0, 0, "keyerror"))]
                /\ UNCHANGED <<t, state, step>>
           ELSE IF res /\ f.nparts # NParts
           THEN \* assert restart_data["nparts"] == nparts
                /\ pc' = [pc EXCEPT ![w] = "raised"]
                /\ log' = [log EXCEPT ![w] = Append(@, Ev("raise", 0, 0, 0, 0, "assert"))]
                /\ UNCHANGED <<t, state, step>>
           ELSE IF ~AdvContinue(t0, cfg.t_final)
           THEN \* advance_state: nothing to advance
                /\ pc' = [pc EXCEPT ![w] = "raised"]
                /\ log' = [log EXCEPT ![w] =
                             Append(@, Ev("raise", InitialStep, t0, 0, s0, "nothing"))]
                /\ t' = [t EXCEPT ![w] = t0]
                /\ state' = [state EXCEPT ![w] = s0]
                /\ step' = [step EXCEPT ![w] = InitialStep]
           ELSE /\ pc' = [pc EXCEPT ![w] = "loop"]
                /\ log' = [log EXCEPT ![w] = Append(@, Ev("enter", InitialStep, t0, 0, s0, "main"))]
                /\ t' = [t EXCEPT ![w] = t0]
                /\ state' = [state EXCEPT ![w] = s0]
                /\ step' = [step EXCEPT ![w] = InitialStep]
    /\ UNCHANGED <<prog, cfg, dt, due, herr, sent>>

ExitWritesBoth(do_viz, do_restart) == [viz |-> TRUE, restart |-> TRUE]

\* what my_pre_step asks my_graceful_exit to write: what the periodic
\* branches of this step have not written
ExitWrites(do_viz, do_restart) == [viz |-> ~do_viz, restart |-> ~do_restart]

\* my_pre_step from the restart write on, given the flags and the agreed
\* health result: the events it appends
PreStepTail(w, d, he) ==
    LET s == step[w]
        tm == t[w]
        st == state[w]
        sup == LumpSuppress(s, cfg.rst_step)
        do_viz == d.viz /\ ~sup
        do_restart == d.restart /\ ~sup
    IN  (IF do_restart THEN <<Ev("restart", s, tm, 0, st, "periodic")>> ELSE <<>>)
        \o (IF do_viz THEN <<Ev("viz", s, tm, 0, st, "periodic")>> ELSE <<>>)
        \o (IF d.status THEN <<Ev("status", s, tm, 0, st, "periodic")>> ELSE <<>>)
        \o (IF LumpPreStepErrors(he)
            THEN GracefulExit(s, tm, st, ExitWrites(do_viz, do_restart).viz,
                              ExitWrites(do_viz, do_restart).restart, "prestep")
            ELSE <<Ev("pre_ret", s, tm, dt[w], st, "loop")>>)

\* the rest of the iteration once my_pre_step has its health result:
\* writes, status, graceful exit or return, then the step size, the
\* timestepper, t += dt, step += 1 and my_post_step
LumpIterate(w, d, he, sofar) ==
    LET tail == PreStepTail(w, d, he)
        h == get_timestep(t[w], dt[w], cfg.t_final, cfg.clamp)
        nt == FAdd(t[w], h)
        ns == state[w] + 1
    IN  IF LumpPreStepErrors(he)
        THEN /\ pc' = [pc EXCEPT ![w] = "aborted"]
             /\ log' = [log EXCEPT ![w] = sofar \o tail]
             /\ UNCHANGED <<step, t, state>>
        ELSE /\ pc' = [pc EXCEPT ![w] = "loop"]
             /\ log' = [log EXCEPT ![w] =
                          sofar \o tail
                          \o <<Ev("timestepper", step[w], t[w], h, state[w], "loop"),
                               Ev("post", step[w] + 1, nt, h, ns, "loop")>>]
             /\ step' = [step EXCEPT ![w] = @ + 1]
             /\ t' = [t EXCEPT ![w] = nt]
             /\ state' = [state EXCEPT ![w] = ns]

\* loop test and my_pre_step up to the allreduce; without a health check
\* due, the whole iteration
LumpPreStep(w) ==
    /\ prog = "lump" /\ pc[w] = "loop"
    /\ AdvContinue(t[w], cfg.t_final)
    /\ LET d == LumpDue(step[w])
           pre == Append(log[w], Ev("pre", step[w], t[w], dt[w], state[w], "loop"))
       IN  /\ due' = [due EXCEPT ![w] = d]
           /\ IF d.health
              THEN \E h \in BOOLEAN :
                     /\ sent' = [sent EXCEPT ![w] = Append(@, h)]
                     /\ log' = [log EXCEPT ![w] =
                                  Append(pre, Ev("health", step[w], t[w], 0, state[w],
                                                 IF h THEN "bad" ELSE "good"))]
                     /\ pc' = [pc EXCEPT ![w] = "allreduce"]
                     /\ UNCHANGED <<step, t, state, herr>>
              ELSE /\ LumpIterate(w, d, FALSE, pre)
                   /\ UNCHANGED <<sent, herr>>
    /\ UNCHANGED <<prog, cfg, dt>>

\* a variant that keeps the local result instead of the reduced one
HealthSeenLocal(w, k) == sent[w][k]

\* health_errors as worker w holds it after the allreduce of round k
HealthSeen(w, k) == LumpReduce(k)

\* the allreduce returns once every worker has contributed; then the rest
\* of the iteration
LumpAllreduce(w) ==
    /\ prog = "lump" /\ pc[w] = "allreduce"
    /\ LET k == Len(sent[w]) IN
         /\ \A v \in Workers : Len(sent[v]) >= k
         /\ LET he == HealthSeen(w, k) IN
              /\ herr' = [herr EXCEPT ![w] = he]
              /\ LumpIterate(w, due[w], he,
                    Append(log[w], Ev(IF he THEN "agg_true" ELSE "agg_false",
                                      step[w], t[w], 0, state[w], "allreduce")))
    /\ UNCHANGED <<prog, cfg, dt, due, sent>>

FinalDumpVizOnly(s, tm, st) == <<Ev("viz", s, tm, 0, st, "final")>>

\* the final dump: my_write_viz, then my_write_restart, of the last state
FinalDump(s, tm, st) ==
    <<Ev("viz", s, tm, 0, st, "final"), Ev("restart", s, tm, 0, st, "final")>>

\* after advance_state returns: the finish check, then the final dump
LumpFinish(w) ==
    /\ prog = "lump" /\ pc[w] = "loop"
    /\ ~AdvContinue(t[w], cfg.t_final)
    /\ IF LumpNotFinished(t[w], cfg.t_final)
       THEN /\ pc' = [pc EXCEPT ![w] = "aborted"]
            /\ log' = [log EXCEPT ![w] =
                         @ \o GracefulExit(step[w], t[w], state[w], TRUE, TRUE, "finish")]
       ELSE /\ pc' = [pc EXCEPT ![w] = "done"]
            /\ log' = [log EXCEPT ![w] =
                         @ \o FinalDump(step[w], t[w], state[w])]
    /\ UNCHANGED <<prog, cfg, step, t, dt, state, due, herr, sent>>

LumpNext ==
    \E w \in Workers : LumpStart(w) \/ LumpPreStep(w) \/ LumpAllreduce(w) \/ LumpFinish(w)

----------------------------------------------------------------------------
(* pulse.py *)

PulseInit ==
    /\ prog = "pulse"
    /\ \E ts \in TimeSetups, nv \in Intervals, ns \in StatusIntervals :
         /\ Representable(ts.t_final) /\ Representable(ts.dt)
         /\ cfg = [t_final |-> ts.t_final, dt |-> ts.dt, clamp |-> ts.clamp,
                   nviz |-> nv, nstatus |-> ns]
         /\ dt = [w \in Workers |-> IF w = 1 THEN ts.dt ELSE 0]
    /\ pc = [w \in Workers |-> IF w = 1 THEN "start" ELSE "off"]
    /\ step = [w \in Workers |-> 0]
    /\ t = [w \in Workers |-> 0]
    /\ state = [w \in Workers |-> 0]
    /\ due = [w \in Workers |-> NoDue]
    /\ herr = [w \in Workers |-> FALSE]
    /\ sent = [w \in Workers |-> <<>>]
    /\ log = [w \in Workers |-> <<>>]

\* my_checkpoint -> sim_checkpoint: status and visualization when due
PulseCheckpoint(s, tm, st, src) ==
    <<Ev("checkpoint", s, tm, 0, st, src)>>
    \o (IF check_step(s, cfg.nstatus) THEN <<Ev("status", s, tm, 0, st, src)>> ELSE <<>>)
    \o (IF check_step(s, cfg.nviz) THEN <<Ev("viz", s, tm, 0, st, src)>> ELSE <<>>)

PulseAbnormalNever(cur_t, t_final) == FALSE

\* current_t - t_final < 0
PulseAbnormal(cur_t, t_final) == cur_t - t_final < 0

\* advance_state's entry check
PulseStart ==
    /\ prog = "pulse" /\ pc[1] = "start"
    /\ IF ~AdvContinue(t[1], cfg.t_final)
       THEN /\ pc' = [pc EXCEPT ![1] = "raised"]
            /\ log' = [log EXCEPT ![1] =
                         Append(@, Ev("raise", InitialStep, t[1], 0, state[1], "nothing"))]
       ELSE /\ pc' = [pc EXCEPT ![1] = "loop"]
            /\ log' = [log EXCEPT ![1] =
                         Append(@, Ev("enter", InitialStep, t[1], 0, state[1], "main"))]
    /\ step' = [step EXCEPT ![1] = InitialStep]
    /\ UNCHANGED <<prog, cfg, t, dt, state, due, herr, sent>>

\* one iteration of advance_state: checkpoint, step size (get_timestep is
\* bound to t=current_t=0 by the partial), timestepper, t += dt, step += 1
PulseIterate ==
    /\ prog = "pulse" /\ pc[1] = "loop"
    /\ AdvContinue(t[1], cfg.t_final)
    /\ LET h == get_timestep(0, dt[1], cfg.t_final, cfg.clamp)
           nt == FAdd(t[1], h)
           ns == state[1] + 1
       IN  /\ log' = [log EXCEPT ![1] =
                        @ \o PulseCheckpoint(step[1], t[1], state[1], "loop")
                          \o <<Ev("timestepper", step[1], t[1], h, state[1], "loop")>>]
           /\ t' = [t EXCEPT ![1] = nt]
           /\ state' = [state EXCEPT ![1] = ns]
           /\ step' = [step EXCEPT ![1] = @ + 1]
    /\ UNCHANGED <<prog, cfg, pc, dt, due, herr, sent>>

\* after advance_state: the final checkpoint, then the completion check
PulseFinish ==
    /\ prog = "pulse" /\ pc[1] = "loop"
    /\ ~AdvContinue(t[1], cfg.t_final)
    /\ LET ck == PulseCheckpoint(step[1], t[1], state[1], "final") IN
         IF PulseAbnormal(t[1], cfg.t_final)
         THEN /\ pc' = [pc EXCEPT ![1] = "raised"]
              /\ log' = [log EXCEPT ![1] =
                           @ \o ck \o <<Ev("raise", step[1], t[1], 0, state[1], "finish")>>]
         ELSE /\ pc' = [pc EXCEPT ![1] = "done"]
              /\ log' = [log EXCEPT ![1] = @ \o ck]
    /\ UNCHANGED <<prog, cfg, step, t, dt, state, due, herr, sent>>

PulseNext == PulseStart \/ PulseIterate \/ PulseFinish
----------------------------------------------------------------------------

Init == GenInit \/ LumpInit \/ PulseInit

GenNext == GenCheck \/ GenPreStep \/ GenPreStepAbort \/ GenStepBody \/ GenFinish

Next == GenNext \/ LumpNext \/ PulseNext

Spec == Init /\ [][Next]_vars

----------------------------------------------------------------------------
(* Claims about the generic driver *)

GenRunning == prog = "generic"

PreEvents(w) == {i \in 1 .. Len(log[w]) : log[w][i].op = "pre"}

\* C1: when current_t >= t_final or current_step >= step_max at the start,
\* main raises "Nothing to do" at once and nothing else is called: no
\* pre-step, no timestepper, no post-step.
C1_NothingToDo ==
    (GenRunning /\ pc[1] # "start"
       /\ (cfg.t0 >= cfg.t_final \/ cfg.step0 >= cfg.step_max))
    => /\ pc[1] = "raised"
       /\ Len(log[1]) = 1
       /\ log[1][1].op = "raise" /\ log[1][1].src = "nothing"
       /\ step[1] = cfg.step0 /\ t[1] = cfg.t0

C1_Witness ==
    GenRunning /\ pc[1] = "raised" /\ cfg.step0 >= cfg.step_max
    /\ cfg.t0 < cfg.t_final

\* C2: when the loop exits normally the final (step, time) meets the
\* terminal condition, and every iteration that ran started with
\* time < t_final and step < step_max.
C2_TerminalCondition ==
    (GenRunning /\ pc[1] = "done")
    => /\ (t[1] >= cfg.t_final \/ step[1] >= cfg.step_max)
       /\ \A i \in PreEvents(1) :
            log[1][i].t < cfg.t_final /\ log[1][i].step < cfg.step_max

C2_Witness ==
    GenRunning /\ pc[1] = "done" /\ Count(1, "pre") >= 2
    /\ t[1] >= cfg.t_final /\ step[1] < cfg.step_max

\* the run ended on its step budget with one step size throughout
GenFixedDtRun ==
    /\ GenRunning /\ pc[1] = "done"
    /\ step[1] = cfg.step_max
    /\ \A i, j \in PreEvents(1) : log[1][i].dt = log[1][j].dt

GenBudget == cfg.step_max - cfg.step0

GenExactEnd == cfg.t0 + GenBudget * dt[1]

\* C3 as stated: with a fixed dt and a budget of n steps the timestepper
\* runs n times, the final step is initial_step + n and the final time is
\* exactly initial_time + n*dt.
C3_ExactFinalTime ==
    GenFixedDtRun
    => /\ Count(1, "timestepper") = GenBudget
       /\ step[1] = cfg.step0 + GenBudget
       /\ t[1] = GenExactEnd

\* unit in the last place of a modelled float
Ulp(x) ==
    LET e == BitLen(Abs(x)) IN IF e <= MantBits THEN 1 ELSE Pow2(e - MantBits)

RECURSIVE SumUlp(_, _)
SumUlp(w, i) ==
    IF i = 0 THEN 0
    ELSE (IF log[w][i].op = "post" THEN Ulp(log[w][i].t) ELSE 0) + SumUlp(w, i - 1)

\* C3 amended: the timestepper runs n times, the final step is
\* initial_step + n, and the final time is initial_time + n*dt up to
\* rounding: the difference is at most half a unit in the last place for
\* each step taken.
C3_FinalTimeWithinRounding ==
    GenFixedDtRun
    => /\ Count(1, "timestepper") = GenBudget
       /\ step[1] = cfg.step0 + GenBudget
       /\ 2 * Abs(t[1] - GenExactEnd) <= SumUlp(1, Len(log[1]))

C3_Witness ==
    GenFixedDtRun /\ GenBudget = 3 /\ dt[1] = 5 /\ t[1] # GenExactEnd

----------------------------------------------------------------------------
(* Claims about scalar-lump-mpi and pulse *)

LumpRunning == prog = "lump"

Evs(w) == 1 .. Len(log[w])

\* my_pre_step has run to its end (return or raise) at step s on worker w
PreStepEnded(w, s) ==
    \E i \in Evs(w) :
        /\ log[w][i].step = s
        /\ \/ log[w][i].op = "pre_ret"
           \/ (log[w][i].op = "raise" /\ log[w][i].src = "prestep")

EndedSteps(w) == {s \in 0 .. step[w] : PreStepEnded(w, s)}

\* step of the pre-step call the flags in due[w] were computed for
LastPreStep(w) ==
    LET I == {i \in Evs(w) : log[w][i].op = "pre"}
        m == CHOOSE i \in I : \A j \in I : j <= i
    IN  log[w][m].step

\* s is one of 0, k, 2k, ...
OnGrid(s, k) == \E m \in 0 .. s : s = m * k

HealthAt(w, s) == \E i \in Evs(w) : log[w][i].op = "health" /\ log[w][i].step = s

StatusAt(w, s) == \E i \in Evs(w) : log[w][i].op = "status" /\ log[w][i].step = s

WriteAt(w, kind, src, s) ==
    \E i \in Evs(w) : log[w][i].op = kind /\ log[w][i].src = src /\ log[w][i].step = s

AnyWriteAt(w, kind, s) ==
    \E i \in Evs(w) : log[w][i].op = kind /\ log[w][i].step = s

\* C4: for an interval k > 0 check_step, as my_pre_step calls it for nviz,
\* nrestart, nhealth and nstatus, is true exactly on the steps 0, k, 2k, ...;
\* the health check and the status line happen on exactly those steps, and
\* so do the periodic visualization and restart writes (the resume step
\* aside).
C4_FiresOnMultiples ==
    LumpRunning =>
    \A w \in Workers :
      /\ Has(w, "pre") =>
           LET s == LastPreStep(w) IN
           /\ cfg.nviz > 0 => (due[w].viz <=> OnGrid(s, cfg.nviz))
           /\ cfg.nrestart > 0 => (due[w].restart <=> OnGrid(s, cfg.nrestart))
           /\ cfg.nhealth > 0 => (due[w].health <=> OnGrid(s, cfg.nhealth))
           /\ cfg.nstatus > 0 => (due[w].status <=> OnGrid(s, cfg.nstatus))
      /\ \A s \in EndedSteps(w) :
           /\ cfg.nhealth > 0 => (HealthAt(w, s) <=> OnGrid(s, cfg.nhealth))
           /\ cfg.nstatus > 0 => (StatusAt(w, s) <=> OnGrid(s, cfg.nstatus))
           /\ (cfg.nviz > 0 /\ s # cfg.rst_step) =>
                (WriteAt(w, "viz", "periodic", s) <=> OnGrid(s, cfg.nviz))
           /\ (cfg.nrestart > 0 /\ s # cfg.rst_step) =>
                (WriteAt(w, "restart", "periodic", s) <=> OnGrid(s, cfg.nrestart))

C4_Witness ==
    /\ LumpRunning /\ cfg.nviz = 2 /\ cfg.nhealth = 2 /\ cfg.rst_step = NoRst
    /\ PreStepEnded(1, 1) /\ PreStepEnded(1, 2)
    /\ ~WriteAt(1, "viz", "periodic", 1) /\ WriteAt(1, "viz", "periodic", 2)
    /\ ~HealthAt(1, 1) /\ HealthAt(1, 2)

\* C5: for an interval <= 0 check_step is false at every step: the action
\* is never due and never happens.
C5_NonPositiveNeverFires ==
    LumpRunning =>
    \A w \in Workers :
      /\ cfg.nviz <= 0 =>
           (~due[w].viz /\ \A s \in 0 .. step[w] : ~WriteAt(w, "viz", "periodic", s))
      /\ cfg.nrestart <= 0 =>
           (~due[w].restart /\ \A s \in 0 .. step[w] : ~WriteAt(w, "restart", "periodic", s))
      /\ cfg.nhealth <= 0 => (~due[w].health /\ ~Has(w, "health"))
      /\ cfg.nstatus <= 0 => (~due[w].status /\ ~Has(w, "status"))

C5_Witness ==
    /\ LumpRunning /\ cfg.nviz = 0 /\ cfg.nhealth = 0 - 1 /\ cfg.nrestart = 0
    /\ cfg.nstatus = 0
    /\ PreStepEnded(1, 0) /\ PreStepEnded(1, 2)

\* the run resumed from a restart and worker w entered the stepping loop
ResumedRun(w) == LumpRunning /\ Resumed(cfg.rst_step) /\ Has(w, "enter")

\* health check and status at step s are as the intervals say
NotSuppressedAt(w, s) ==
    /\ HealthAt(w, s) <=> check_step(s, cfg.nhealth)
    /\ StatusAt(w, s) <=> check_step(s, cfg.nstatus)

\* the periodic writes at step s are as the intervals say
PeriodicAsDue(w, s) ==
    /\ WriteAt(w, "viz", "periodic", s) <=> check_step(s, cfg.nviz)
    /\ WriteAt(w, "restart", "periodic", s) <=> check_step(s, cfg.nrestart)

\* C6 as stated: in a run resumed at step s no visualization file and no
\* restart file is written for step s, health check and status at s are
\* not suppressed, and no other step is suppressed.
C6_NoFileForResumeStep ==
    \A w \in Workers :
      ResumedRun(w) =>
        /\ ~AnyWriteAt(w, "viz", cfg.rst_step)
        /\ ~AnyWriteAt(w, "restart", cfg.rst_step)
        /\ \A s \in EndedSteps(w) :
             /\ NotSuppressedAt(w, s)
             /\ s # cfg.rst_step => PeriodicAsDue(w, s)

\* C6 amended: in a run resumed at step s the periodic visualization and
\* restart writes of my_pre_step are skipped at step s, health check and
\* status at s are not, and no other step is suppressed; files for step s
\* are still written by my_graceful_exit when the health check fails at s,
\* and by the final dump when the loop ends at s.
C6_PeriodicSuppressedAtResumeStep ==
    \A w \in Workers :
      ResumedRun(w) =>
        /\ ~WriteAt(w, "viz", "periodic", cfg.rst_step)
        /\ ~WriteAt(w, "restart", "periodic", cfg.rst_step)
        /\ \A s \in EndedSteps(w) :
             /\ NotSuppressedAt(w, s)
             /\ s # cfg.rst_step => PeriodicAsDue(w, s)

C6_Witness ==
    /\ ResumedRun(1) /\ PreStepEnded(1, cfg.rst_step)
    /\ check_step(cfg.rst_step, cfg.nviz) /\ check_step(cfg.rst_step, cfg.nrestart)
    /\ HealthAt(1, cfg.rst_step)
    /\ ~AnyWriteAt(1, "viz", cfg.rst_step) /\ ~AnyWriteAt(1, "restart", cfg.rst_step)

AggEvents(w) == {i \in Evs(w) : log[w][i].op \in {"agg_true", "agg_false"}}

\* which health check (1st, 2nd, ...) the event at i is the result of
RoundOf(w, i) == Cardinality({j \in AggEvents(w) : j <= i})

\* a restart file for the step of the raise at r was written before it
RestartBefore(w, r) ==
    \E j \in 1 .. r - 1 :
        /\ log[w][j].op = "restart"
        /\ log[w][j].step = log[w][r].step
        /\ log[w][j].st = log[w][r].st

VizBefore(w, r) ==
    \E j \in 1 .. r - 1 :
        /\ log[w][j].op = "viz"
        /\ log[w][j].step = log[w][r].step
        /\ log[w][j].st = log[w][r].st

\* C7: the health result every worker sees after the reduction is the OR
\* of all workers' local results, and a worker that sees true has written a
\* restart file for that step before it raises.
C7_HealthOrAndCheckpoint ==
    LumpRunning =>
    \A w \in Workers : \A i \in AggEvents(w) :
      /\ (log[w][i].op = "agg_true") <=> (\E v \in Workers : sent[v][RoundOf(w, i)])
      /\ log[w][i].op = "agg_true" =>
           /\ pc[w] = "aborted"
           /\ \E r \in Evs(w) :
                /\ r > i
                /\ log[w][r].op = "raise" /\ log[w][r].src = "prestep"
                /\ log[w][r].step = log[w][i].step
                /\ RestartBefore(w, r)

C7_Witness ==
    /\ LumpRunning
    /\ \E k \in 1 .. Len(sent[1]) : k <= Len(sent[2]) /\ ~sent[1][k] /\ sent[2][k]
    /\ pc[1] = "aborted" /\ pc[2] = "aborted"
    /\ Has(1, "agg_true") /\ Has(2, "agg_true")
    /\ step[1] >= 1

\* C8: once the agreed health result is true at step s the pre-step raises:
\* the worker makes no further call, the timestepper does not run for step
\* s, and no worker runs a pre-step, timestepper or post-step for a later
\* step.
C8_AbortStopsStepping ==
    LumpRunning =>
    \A w \in Workers : \A i \in Evs(w) :
      log[w][i].op = "agg_true" =>
        LET s == log[w][i].step IN
        /\ pc[w] = "aborted"
        /\ log[w][Len(log[w])].op = "raise"
        /\ \A j \in Evs(w) :
             j > i => log[w][j].op \in {"restart", "viz", "status", "raise"}
        /\ \A v \in Workers : \A j \in Evs(v) :
             /\ log[v][j].op = "timestepper" => log[v][j].step < s
             /\ log[v][j].op \in {"pre", "post"} => log[v][j].step <= s

C8_Witness ==
    /\ LumpRunning
    /\ \A w \in Workers : pc[w] = "aborted" /\ Has(w, "agg_true") /\ step[w] = 2
    /\ Count(1, "timestepper") = 2

FatalEvents(w) ==
    {r \in Evs(w) : log[w][r].op = "raise"
                    /\ log[w][r].src \in {"nothing", "prestep", "finish"}}

\* C9 as stated: every fatal condition (nothing to do, health-check
\* failure, non-completion) is preceded on the same worker by a write of the
\* current state.
C9_EveryFatalAfterWrite ==
    \A w \in Workers : \A r \in FatalEvents(w) :
      RestartBefore(w, r) \/ VizBefore(w, r)

\* C9 amended: in scalar-lump-mpi a health-check failure and a
\* non-completion at the final time are each preceded on the same worker by
\* a write of the restart file and of the visualization file for the
\* current step and state; the "nothing to do" error of the generic driver
\* is raised with nothing done before it.
C9_LumpFatalAfterWrite ==
    \A w \in Workers : \A r \in FatalEvents(w) :
      /\ (LumpRunning /\ log[w][r].src \in {"prestep", "finish"}) =>
           (RestartBefore(w, r) /\ VizBefore(w, r))
      /\ (GenRunning /\ log[w][r].src = "nothing") => Len(log[w]) = 1

C9_Witness ==
    /\ LumpRunning
    /\ \E r \in FatalEvents(1) :
         /\ log[1][r].src = "prestep" /\ log[1][r].step = 1
         /\ WriteAt(1, "restart", "emergency", 1) /\ WriteAt(1, "viz", "periodic", 1)

LastIs(w, op, src) ==
    /\ Len(log[w]) > 0
    /\ log[w][Len(log[w])].op = op /\ log[w][Len(log[w])].src = src

\* C10: after the loop, scalar-lump-mpi raises exactly when
\* |current_t - t_final| > finish_tol and pulse exactly when
\* current_t < t_final; a run that raises writes no final dump and does not
\* complete, a run within the tolerance completes without that error.
C10_NonCompletionIsFatal ==
    \A w \in Workers :
      /\ (prog = "lump" /\ pc[w] = "done") =>
           /\ Abs(t[w] - cfg.t_final) <= finish_tol
           /\ ~Has(w, "raise")
           /\ WriteAt(w, "restart", "final", step[w])
      /\ (prog = "lump" /\ LastIs(w, "raise", "finish")) =>
           /\ Abs(t[w] - cfg.t_final) > finish_tol
           /\ pc[w] = "aborted"
           /\ ~WriteAt(w, "restart", "final", step[w])
           /\ ~WriteAt(w, "viz", "final", step[w])
      /\ (prog = "lump" /\ pc[w] = "aborted") =>
           (LastIs(w, "raise", "finish") \/ LastIs(w, "raise", "prestep"))
      /\ (prog = "pulse" /\ pc[w] = "done") =>
           (~(t[w] < cfg.t_final) /\ ~Has(w, "raise"))
      /\ (prog = "pulse" /\ LastIs(w, "raise", "finish")) => t[w] < cfg.t_final

C10_Witness ==
    /\ prog = "lump"
    /\ LastIs(1, "raise", "finish") /\ t[1] > cfg.t_final + finish_tol
    /\ pc[2] = "done" \/ pc[2] = "aborted"

\* a run that overshoots t_final by no more than finish_tol completes
C10_WitnessWithinTolerance ==
    prog = "lump" /\ pc[1] = "done" /\ t[1] = cfg.t_final + finish_tol

----------------------------------------------------------------------------
(* Claims about the collectives of scalar-lump-mpi *)

Terminated(w) == pc[w] \in {"done", "aborted", "raised"}

IsPrefix(a, b) == Len(a) <= Len(b) /\ \A i \in 1 .. Len(a) : a[i] = b[i]

\* an event of a collective call (the health allreduce, the restart
\* write) or of the decision taken on the reduced health result
IsCollective(e) == e.op \in {"health", "restart", "agg_true", "agg_false"}

\* the call and the step of each event of a sequence
Calls(evs) == [i \in 1 .. Len(evs) |-> <<evs[i].op, evs[i].step>>]

\* the collective calls worker w has made and the continue-or-abort
\* decisions it has taken so far, in order, each with its step
CollSeq(w) == Calls(SelectSeq(log[w], IsCollective))

\* C11: no worker aborts or exits while a peer waits in, or will later
\* enter, a collective: the workers make the same collective calls in the
\* same order at the same steps, take the same continue-or-abort decision
\* in every health round, a worker that has ended has made every
\* collective call any peer has made, a worker whose local check failed
\* has contributed to the allreduce and written its restart file before it
\* raises, and the run never stops with a worker still waiting.
C11_CollectivesMatch ==
    LumpRunning =>
      LET coll == [w \in Workers |-> CollSeq(w)] IN
      /\ \A w, v \in Workers :
           /\ w < v => (IsPrefix(coll[w], coll[v]) \/ IsPrefix(coll[v], coll[w]))
           /\ Terminated(w) => IsPrefix(coll[v], coll[w])
           /\ pc[w] = "allreduce" /\ Terminated(v) => Len(sent[v]) >= Len(sent[w])
      /\ \A w \in Workers : \A i \in Evs(w) :
           (log[w][i].op = "health" /\ log[w][i].src = "bad" /\ Terminated(w))
           => /\ Len(sent[w]) = Count(w, "health")
              /\ \E j, r \in Evs(w) :
                   /\ i < j /\ j < r
                   /\ log[w][j].op = "restart" /\ log[w][j].step = log[w][i].step
                   /\ log[w][r].op = "raise" /\ log[w][r].src = "prestep"
      /\ (\E w \in Workers : ~Terminated(w)) => ENABLED LumpNext

\* one worker's own check failed and the other's passed, both have ended
\* by the same abort after a restart write
C11_Witness ==
    /\ LumpRunning
    /\ \A w \in Workers : pc[w] = "aborted" /\ LastIs(w, "raise", "prestep")
    /\ \E i \in Evs(1) : log[1][i].op = "health" /\ log[1][i].src = "bad"
    /\ \A i \in Evs(2) : log[2][i].op = "health" => log[2][i].src = "good"
    /\ Len(CollSeq(1)) >= 2 /\ CollSeq(1) = CollSeq(2)

----------------------------------------------------------------------------
(* Restart file names of scalar-lump-mpi *)

DigitChar(d) == <<"0", "1", "2", "3", "4", "5", "6", "7", "8", "9">>[d + 1]

\* the decimal digits of n >= 0, most significant first
RECURSIVE Digits(_)
Digits(n) == IF n < 10 THEN <<DigitChar(n)>> ELSE Append(Digits(n \div 10), DigitChar(n % 10))

RECURSIVE ZeroPad(_, _)
ZeroPad(sq, width) == IF Len(sq) >= width THEN sq ELSE ZeroPad(<<"0">> \o sq, width)

\* the format specification 04d: zero padded to at least four characters,
\* the sign (counted in the width) first
Fmt04d(n) == IF n < 0 THEN <<"-">> \o ZeroPad(Digits(0 - n), 3) ELSE ZeroPad(Digits(n), 4)

\* MPI rank of worker w
Rank(w) == w - 1

\* a pattern without the rank field
rst_fname_step_only(s, rank) ==
    <<"restart_data/", "lumpy-scalars", "-">> \o Fmt04d(s) \o <<".pkl">>

\* rst_pattern.format(cname=casename, step=step, rank=rank)
rst_fname(s, rank) ==
    <<"restart_data/", "lumpy-scalars", "-">> \o Fmt04d(s) \o <<"-">> \o Fmt04d(rank) \o <<".pkl">>

RestartIdx(w) == {i \in Evs(w) : log[w][i].op = "restart"}

\* step and rank values around the padding width
FmtSamples == {0, 7, 999, 1000, 9999, 10000}

\* the restart file name of every step and rank a run of the model reaches
RstNames == [s \in 0 .. 9, r \in 0 .. NParts |-> rst_fname(s, r)]

\* names for different ranks differ, whatever the steps, on both sides of
\* the padding width
SampleNamesDiffer ==
    \A s1, s2, r1, r2 \in FmtSamples : r1 # r2 => rst_fname(s1, r1) # rst_fname(s2, r2)

\* C12: the name of a restart file is fixed by (step, rank), and two
\* different workers never write the same restart file, at any step; the
\* same holds of the format for step and rank values on both sides of the
\* padding width.
C12_DistinctRestartFiles ==
    LumpRunning =>
      /\ \A w, v \in Workers : \A i \in RestartIdx(w), j \in RestartIdx(v) :
           w # v => RstNames[log[w][i].step, Rank(w)] # RstNames[log[v][j].step, Rank(v)]
      /\ SampleNamesDiffer

\* both workers have written a restart file for the same step after the
\* first, and a later one
C12_Witness ==
    /\ LumpRunning
    /\ \E i \in RestartIdx(1), j \in RestartIdx(2) :
         log[1][i].step = log[2][j].step /\ log[1][i].step >= 1
    /\ Cardinality(RestartIdx(1)) >= 2 /\ Cardinality(RestartIdx(2)) >= 2

----------------------------------------------------------------------------
(* Restart round trip of scalar-lump-mpi *)

\* the keys of rst_data in my_write_restart
rst_data_keys == {"local_mesh", "state", "t", "step", "global_nelements", "num_parts"}

\* the keys the resume path reads from restart_data
resume_keys == {"local_mesh", "global_nelements", "nparts", "t", "state"}

\* a restart file as my_write_restart of a run with the same number of
\* workers writes it
OwnFile(f) == f.key \in rst_data_keys /\ f.nparts = NParts

\* C13: a file written by my_write_restart holds every field the resume
\* path reads, so a run resumed from it gets past the reads and the
\* worker-count check and starts from the state and time of the file.
C13_RoundTrip ==
    \A w \in Workers :
      (LumpRunning /\ Resumed(cfg.rst_step) /\ OwnFile(cfg.rfile) /\ pc[w] # "start")
      => /\ resume_keys \subseteq rst_data_keys
         /\ log[w][1].src \notin {"keyerror", "assert"}
         /\ log[w][1].t = cfg.rfile.t /\ log[w][1].st = cfg.rfile.state

----------------------------------------------------------------------------
(* Time-bounded runs with a fixed step size *)

\* a finished run of the generic driver with one positive step size
\* throughout that divides t_final - t0, and a step budget that does not
\* cut it short
GenTimeBoundedRun ==
    /\ GenRunning /\ pc[1] = "done" /\ PreEvents(1) # {}
    /\ dt[1] > 0
    /\ \A i \in PreEvents(1) : log[1][i].dt = dt[1]
    /\ (cfg.t_final - cfg.t0) % dt[1] = 0
    /\ (cfg.t_final - cfg.t0) \div dt[1] <= GenBudget

GenStepsNeeded == (cfg.t_final - cfg.t0) \div dt[1]

\* every partial sum t0 + k*d up to n steps is a float, so no addition rounds
NoRounding(t0, d, n) == \A k \in 1 .. n : Representable(t0 + k * d)

\* a finished run of scalar-lump-mpi or pulse whose step size divides t_final
SteppersTimeBoundedRun(w) ==
    /\ prog \in {"lump", "pulse"} /\ pc[w] = "done"
    /\ ~cfg.clamp /\ cfg.t_final % cfg.dt = 0
    /\ \A i \in Evs(w) : log[w][i].op = "enter" => log[w][i].t = 0

\* C14 as stated: a loop bounded by the time horizon with a fixed dt that
\* divides t_final - t0 runs exactly (t_final - t0)/dt iterations and ends
\* at exactly t_final.
C14_ExactIterations ==
    GenTimeBoundedRun
    => Count(1, "timestepper") = GenStepsNeeded /\ t[1] = cfg.t_final

\* C14 amended: the same holds when no addition of the run rounds, that
\* is when every partial sum t0 + k*dt is a float; in every case the loop
\* has not stopped before the accumulated time reached t_final or the
\* step limit was hit.
C14_ExactIterationsWithoutRounding ==
    /\ (GenTimeBoundedRun /\ NoRounding(cfg.t0, dt[1], GenStepsNeeded))
       => /\ Count(1, "timestepper") = GenStepsNeeded
          /\ step[1] = cfg.step0 + GenStepsNeeded
          /\ t[1] = cfg.t_final
    /\ GenTimeBoundedRun => (t[1] >= cfg.t_final \/ step[1] = cfg.step_max)
    /\ \A w \in Workers :
         (SteppersTimeBoundedRun(w) /\ NoRounding(0, cfg.dt, cfg.t_final \div cfg.dt))
         => /\ Count(w, "timestepper") = cfg.t_final \div cfg.dt
            /\ t[w] = cfg.t_final

\* a run of two steps from 6 to 8 that stops on the time horizon with
\* steps to spare
C14_Witness ==
    /\ GenTimeBoundedRun /\ NoRounding(cfg.t0, dt[1], GenStepsNeeded)
    /\ GenStepsNeeded = 2 /\ GenBudget > 2 /\ cfg.t0 = 6 /\ t[1] = 8

----------------------------------------------------------------------------
(* The last state of a run of scalar-lump-mpi is persisted *)

\* worker w has written both a visualization file and a restart file of
\* (s, tm, st) before position r of its log
PersistedBefore(w, r, s, tm, st) ==
    \A kind \in {"viz", "restart"} :
      \E i \in Evs(w) :
        /\ i < r /\ log[w][i].op = kind
        /\ log[w][i].step = s /\ log[w][i].t = tm /\ log[w][i].st = st

\* C15: every run of scalar-lump-mpi that entered the stepping loop and
\* has ended has persisted the last state it reached: after the loop a
\* completed run has written the visualization and restart files of its
\* final (step, t, state), and an aborted run has written both for the
\* state at the abort point before the error is raised.
C15_LastStatePersisted ==
    \A w \in Workers :
      (LumpRunning /\ Has(w, "enter") /\ Terminated(w))
      => /\ pc[w] \in {"done", "aborted"}
         /\ pc[w] = "done"
              => /\ PersistedBefore(w, Len(log[w]) + 1, step[w], t[w], state[w])
                 /\ log[w][Len(log[w])].src = "final"
                 /\ ~Has(w, "raise")
         /\ pc[w] = "aborted"
              => /\ log[w][Len(log[w])].op = "raise"
                 /\ Count(w, "raise") = 1
                 /\ PersistedBefore(w, Len(log[w]), step[w], t[w], state[w])

\* a completed run of at least two steps, with its final dump
C15_Witness ==
    /\ LumpRunning /\ pc[1] = "done" /\ step[1] >= 2
    /\ WriteAt(1, "viz", "final", step[1]) /\ WriteAt(1, "restart", "final", step[1])

----------------------------------------------------------------------------
(* Order of the calls in the loop of the generic driver *)

GenLog == log[1]

\* the position of the k-th pre-step call in the log
PreIndex(k) == CHOOSE i \in PreEvents(1) : Cardinality({j \in PreEvents(1) : j <= i}) = k

\* C16: in every iteration of the generic loop the pre-step callback gets
\* the current (step, t, state); the timestepper then gets the state and
\* the dt that pre-step call returned and the time before the advance;
\* then t += dt and step += 1; then the post-step callback gets the
\* advanced step and time and the new state. The step counter grows by
\* exactly 1 per iteration, and the pre-step of a step never runs before
\* the post-step of the step before it.
C16_CallOrder ==
    GenRunning =>
      /\ \A i \in 1 .. Len(GenLog) :
           /\ GenLog[i].op = "timestepper"
                => /\ i >= 3 /\ i + 1 <= Len(GenLog)
                   /\ GenLog[i - 2].op = "pre" /\ GenLog[i - 1].op = "pre_ret"
                   /\ GenLog[i].step = GenLog[i - 2].step
                   /\ GenLog[i].t = GenLog[i - 2].t
                   /\ GenLog[i].dt = GenLog[i - 1].dt
                   /\ GenLog[i].st = GenLog[i - 1].st
                   /\ GenLog[i + 1].op = "post"
                   /\ GenLog[i + 1].step = GenLog[i].step + 1
                   /\ GenLog[i + 1].t = Round(GenLog[i].t + GenLog[i].dt)
                   /\ GenLog[i + 1].st = GenLog[i].st + 1
           /\ GenLog[i].op = "post"
                => /\ i >= 2 /\ GenLog[i - 1].op = "timestepper"
                   /\ (i = Len(GenLog) - 1 /\ pc[1] \in {"loop", "done"})
                        => /\ step[1] = GenLog[i].step /\ t[1] = GenLog[i].t
                           /\ state[1] = GenLog[i].st
      /\ \A k \in 1 .. Cardinality(PreEvents(1)) :
           LET i == PreIndex(k) IN
             /\ GenLog[i].step = cfg.step0 + k - 1
             /\ IF k = 1
                THEN i = 1 /\ GenLog[i].t = cfg.t0 /\ GenLog[i].st = 0
                ELSE /\ GenLog[i - 2].op = "post" /\ GenLog[i - 1].op = "post_ret"
                     /\ GenLog[i - 2].step = GenLog[i].step
                     /\ GenLog[i - 2].t = GenLog[i].t
                     /\ GenLog[i - 2].st = GenLog[i].st

\* three full iterations, with a pre-step that handed back a state of its
\* own and a step size that made the time round
C16_Witness ==
    /\ GenRunning /\ Count(1, "post") >= 3 /\ pc[1] = "done"
    /\ \E i \in 1 .. Len(GenLog) :
         /\ GenLog[i].op = "timestepper" /\ GenLog[i].st # GenLog[i - 2].st
         /\ GenLog[i + 1].t # GenLog[i].t + GenLog[i].dt

----------------------------------------------------------------------------
(* What becomes of the post-step callback's result in the generic driver *)

\* C17: a state or step size produced by the post-step callback of one
\* iteration is what the next iteration works from: the next pre-step
\* call gets the state the post-step call handed back.
C17_PostStepResultUsed ==
    GenRunning =>
      \A i \in 1 .. Len(GenLog) :
        (GenLog[i].op = "post_ret" /\ i + 1 <= Len(GenLog) /\ GenLog[i + 1].op = "pre")
        => GenLog[i + 1].st = GenLog[i].st

----------------------------------------------------------------------------
(* Files written when the health check of scalar-lump-mpi fails *)

\* the step at which worker w aborted out of my_pre_step
AbortStep(w) == log[w][Len(log[w])].step

HealthAbort(w) == LumpRunning /\ pc[w] = "aborted" /\ LastIs(w, "raise", "prestep")

\* the one source a write of this kind comes from at step s: the periodic
\* branch when the action is due and not suppressed, else my_graceful_exit
WriterAt(due_now, s) ==
    IF due_now /\ ~LumpSuppress(s, cfg.rst_step) THEN "periodic" ELSE "emergency"

\* C18: when the health check fails at step s, every worker writes the
\* visualization file and the restart file of step s exactly once each:
\* in the periodic branch when the action is due at s (and not suppressed),
\* otherwise in my_graceful_exit; for every combination of intervals and
\* resume step.
C18_ExactlyOneWritePerFile ==
    \A w \in Workers :
      HealthAbort(w) =>
        LET s == AbortStep(w) IN
          /\ CountAt(w, "viz", s) = 1
          /\ CountAt(w, "restart", s) = 1
          /\ WriteAt(w, "viz", WriterAt(check_step(s, cfg.nviz), s), s)
          /\ WriteAt(w, "restart", WriterAt(check_step(s, cfg.nrestart), s), s)

\* both workers aborted at a later step where the visualization was due
\* and the restart file was not, so the two files come from different
\* branches
C18_Witness ==
    /\ \A w \in Workers : HealthAbort(w) /\ AbortStep(w) >= 1
    /\ WriteAt(1, "viz", "periodic", AbortStep(1))
    /\ WriteAt(1, "restart", "emergency", AbortStep(1))
    /\ WriteAt(2, "viz", "periodic", AbortStep(2))

----------------------------------------------------------------------------
(* Where a resumed run of scalar-lump-mpi enters the loop *)

\* C19: a run resumed with rst_step = s enters the stepping loop at step
\* index s and at the time of the restart file: the first pre-step call
\* gets step = s and t = restart_data["t"].
C19_ResumeEntersAtRestartStep ==
    \A w \in Workers :
      (ResumedRun(w) /\ PreEvents(w) # {})
      => LET first == log[w][CHOOSE i \in PreEvents(w) : \A j \in PreEvents(w) : i <= j]
         IN  first.step = cfg.rst_step /\ first.t = cfg.rfile.t

----------------------------------------------------------------------------
(* Termination of the generic driver loop *)

\* the generic driver alone, with callbacks that return: the one thread of
\* control keeps taking its next step
GenFairSpec == GenInit /\ [][GenNext]_vars /\ WF_vars(GenNext)

GenEnded == pc[1] \in {"raised", "aborted", "done"}

CeilDiv(a, b) == (a + b - 1) \div b

\* the iterations steps of size c take from t0 to t_final
StepsOfSize(c) == IF cfg.t_final > cfg.t0 THEN CeilDiv(cfg.t_final - cfg.t0, c) ELSE 0

PositiveDts == {d \in GenDt : d > 0}

\* every step size the pre-step has returned so far is at least c
DtAtLeast(c) == \A i \in PreEvents(1) : log[1][i].dt >= c

\* every current_t += dt so far has raised the time by at least c
AdvancedAtLeast(c) ==
    \A i \in 1 .. Len(log[1]) :
      log[1][i].op = "timestepper" => log[1][i + 1].t - log[1][i].t >= c

\* the loop never runs more than step_max - initial_step iterations
StepBudgetKept ==
    /\ Count(1, "timestepper") <= (IF GenBudget > 0 THEN GenBudget ELSE 0)
    /\ Count(1, "pre") <= (IF GenBudget > 0 THEN GenBudget ELSE 0)

\* C20 as stated: the loop ends after at most step_max - initial_step
\* iterations for every sequence of step sizes, zero and negative ones
\* included; and with dt bounded below by a positive constant c it ends
\* on the time horizon alone, within ceil((t_final - t0)/c) iterations.
C20_TerminatesOnTimeAlone ==
    /\ [](StepBudgetKept)
    /\ <>GenEnded
    /\ [](\A c \in PositiveDts :
            DtAtLeast(c) => Count(1, "timestepper") <= StepsOfSize(c))

\* C20 amended: the loop ends after at most step_max - initial_step
\* iterations for every sequence of step sizes; with dt bounded below by
\* c > 0 it ends on the time horizon within ceil((t_final - t0)/c)
\* iterations as long as every addition raises the time by at least c.
C20_TerminatesWithinBudget ==
    /\ [](StepBudgetKept)
    /\ <>GenEnded
    /\ [](\A c \in PositiveDts :
            (DtAtLeast(c) /\ AdvancedAtLeast(c))
            => Count(1, "timestepper") <= StepsOfSize(c))

\* a run of three iterations whose step sizes were never positive, ended
\* by the step limit with the time still short of t_final
C20_Witness ==
    /\ GenRunning /\ pc[1] = "done" /\ Count(1, "timestepper") = 3 /\ GenBudget = 3
    /\ \A i \in PreEvents(1) : log[1][i].dt <= 0
    /\ \E i \in PreEvents(1) : log[1][i].dt < 0
    /\ t[1] < cfg.t_final

\* a run of two iterations with positive step sizes that ended on the
\* time horizon with steps to spare
C20_WitnessOnTime ==
    /\ GenRunning /\ pc[1] = "done" /\ Count(1, "timestepper") = 2 /\ GenBudget = 3
    /\ DtAtLeast(5) /\ AdvancedAtLeast(5) /\ t[1] >= cfg.t_final

====
